---------------------------- MODULE Spec2Model ----------------------------
(***************************************************************************)
(* Model of the sitemap splitter (splitter.go): NewSitemapSplitter and     *)
(* SitemapSplitter.Split, together with the parts of the Go standard       *)
(* library whose behaviour decides what Split does (path/filepath,         *)
(* net/url, encoding/xml, os.WriteFile, time.Now).                         *)
(*                                                                         *)
(* Text is modelled as a sequence of tokens.  A token is either one        *)
(* punctuation character, a maximal run of decimal digits, or a maximal    *)
(* run of letters; two texts are equal exactly when their token sequences  *)
(* are equal.  The functions that scan a text character by character       *)
(* (Ext, Base, Dir, Clean, url.Parse) only ever test the class of a        *)
(* character, so they are modelled by the same scan over tokens.           *)
(***************************************************************************)
EXTENDS Integers, Sequences, FiniteSets, TLC

(***************************************************************************)
(* Bounds of the model.                                                    *)
(***************************************************************************)
\* Largest number of <url> elements in a source document.
MaxUrls == 3
\* Largest limit handed to NewSitemapSplitter.
MaxLimit == 3
\* Number of Split calls made on one splitter.
MaxCalls == 2
\* Last value of the wall clock (the clock starts at 1).
MaxTime == 2

(***************************************************************************)
(* Tokens.                                                                 *)
(***************************************************************************)
Punct == {":", "/", ".", "%", " ", "-", "+", "#", "?", "@", "[", "]"}

DigitTokens == {ToString(n) : n \in 0..(MaxUrls + 2)} \cup {"8080"}

IsDigits(t) == t \in DigitTokens

IsLetters(t) == t \notin Punct /\ t \notin DigitTokens

\* Tokens of the model whose first two characters are hexadecimal digits:
\* the only texts that may follow a "%" in a valid escape.
HexPrefixed == {"8080"}

(***************************************************************************)
(* Helpers on token sequences.                                             *)
(***************************************************************************)
\* strings.Index / strings.LastIndex for a one-character separator;
\* 0 when the separator does not occur.
IndexOf(s, t) ==
    IF \E k \in 1..Len(s) : s[k] = t
    THEN CHOOSE k \in 1..Len(s) : s[k] = t /\ \A j \in 1..(k - 1) : s[j] # t
    ELSE 0

LastIndexOf(s, t) ==
    IF \E k \in 1..Len(s) : s[k] = t
    THEN CHOOSE k \in 1..Len(s) : s[k] = t /\ \A j \in (k + 1)..Len(s) : s[j] # t
    ELSE 0

Prefix(s, n) == SubSeq(s, 1, n)

Suffix(s, n) == SubSeq(s, n, Len(s))

HasPrefix(s, p) == Len(s) >= Len(p) /\ Prefix(s, Len(p)) = p

(***************************************************************************)
(* path/filepath (Unix).                                                   *)
(***************************************************************************)
\* The path elements between separators, empty ones included.
RECURSIVE SplitPath(_)
SplitPath(p) ==
    LET k == IndexOf(p, "/")
    IN  IF k = 0 THEN <<p>>
        ELSE <<Prefix(p, k - 1)>> \o SplitPath(Suffix(p, k + 1))

DotDot == <<".", ".">>

\* filepath.Clean's element loop: drop empty and "." elements, resolve "..".
RECURSIVE CleanElems(_, _, _)
CleanElems(elems, out, rooted) ==
    IF elems = <<>> THEN out
    ELSE LET e == Head(elems)
             rest == Tail(elems)
         IN  IF e = <<>> \/ e = <<".">> THEN CleanElems(rest, out, rooted)
             ELSE IF e = DotDot
                  THEN IF out # <<>> /\ out[Len(out)] # DotDot
                       THEN CleanElems(rest, Prefix(out, Len(out) - 1), rooted)
                       ELSE IF rooted THEN CleanElems(rest, out, rooted)
                            ELSE CleanElems(rest, Append(out, e), rooted)
                  ELSE CleanElems(rest, Append(out, e), rooted)

RECURSIVE JoinElems(_)
JoinElems(elems) ==
    IF elems = <<>> THEN <<>>
    ELSE IF Len(elems) = 1 THEN elems[1]
         ELSE elems[1] \o <<"/">> \o JoinElems(Tail(elems))

Clean(p) ==
    IF p = <<>> THEN <<".">>
    ELSE LET rooted == p[1] = "/"
             body == JoinElems(CleanElems(SplitPath(p), <<>>, rooted))
         IN  IF rooted THEN <<"/">> \o body
             ELSE IF body = <<>> THEN <<".">> ELSE body

\* filepath.Dir: everything up to the last separator, cleaned.
Dir(p) == Clean(Prefix(p, LastIndexOf(p, "/")))

RECURSIVE StripTrailingSlashes(_)
StripTrailingSlashes(p) ==
    IF p # <<>> /\ p[Len(p)] = "/"
    THEN StripTrailingSlashes(Prefix(p, Len(p) - 1))
    ELSE p

\* filepath.Base: the last element of the path.
Base(p) ==
    IF p = <<>> THEN <<".">>
    ELSE LET q == StripTrailingSlashes(p)
         IN  IF q = <<>> THEN <<"/">>
             ELSE Suffix(q, LastIndexOf(q, "/") + 1)

\* filepath.Ext: the suffix of the last element that starts at its last dot.
Ext(p) ==
    LET last == Suffix(p, LastIndexOf(p, "/") + 1)
        k == LastIndexOf(last, ".")
    IN  IF k = 0 THEN <<>> ELSE Suffix(last, k)

\* filepath.Join of a directory and a file name.
Join(d, name) ==
    IF d = <<>> THEN Clean(name) ELSE Clean(d \o <<"/">> \o name)

\* baseFilename := filename[:len(filename)-len(filepath.Ext(filename))]
BaseFilename(path) ==
    LET filename == Base(path)
    IN  Prefix(filename, Len(filename) - Len(Ext(filename)))

\* Mutation: the chunk number is left out of the file name.
SitemapName_Unnumbered(baseFilename, n) ==
    baseFilename \o <<".", "xml">>

\* sitemapName := fmt.Sprintf("%s-%d.xml", baseFilename, i+1), for n = i+1
SitemapName(baseFilename, n) ==
    baseFilename \o <<"-", ToString(n), ".", "xml">>

IndexName == <<"sitemap", "-", "index", ".", "xml">>

(***************************************************************************)
(* net/url: url.Parse, as far as Scheme, Host and the error go.            *)
(***************************************************************************)
\* getScheme: the scan stops at the first character that decides.
\* Result: <<ok, scheme, rest>>.
RECURSIVE GetSchemeFrom(_, _)
GetSchemeFrom(raw, k) ==
    IF k > Len(raw) THEN <<TRUE, <<>>, raw>>
    ELSE LET c == raw[k]
         IN  IF IsLetters(c) THEN GetSchemeFrom(raw, k + 1)
             ELSE IF IsDigits(c) \/ c \in {"+", "-", "."}
                  THEN IF k = 1 THEN <<TRUE, <<>>, raw>>
                       ELSE GetSchemeFrom(raw, k + 1)
                  ELSE IF c = ":"
                       THEN IF k = 1 THEN <<FALSE, <<>>, <<>>>>
                            ELSE <<TRUE, Prefix(raw, k - 1), Suffix(raw, k + 1)>>
                       ELSE <<TRUE, <<>>, raw>>

GetScheme(raw) == GetSchemeFrom(raw, 1)

\* unescape in path mode fails on a "%" not followed by two hex digits.
ValidEscapes(s) ==
    \A k \in 1..Len(s) :
        s[k] = "%" => (k < Len(s) /\ s[k + 1] \in HexPrefixed)

\* validOptionalPort: "" or ":" followed by digits only.
ValidOptionalPort(port) ==
    \/ port = <<>>
    \/ /\ port[1] = ":"
       /\ \A k \in 2..Len(port) : IsDigits(port[k])

\* parseHost for a host that is not an IP literal: the port after the last
\* colon must be valid and no character may need escaping in a host.
ValidHost(host) ==
    /\ LET k == LastIndexOf(host, ":")
       IN  k > 0 => ValidOptionalPort(Suffix(host, k))
    /\ \A k \in 1..Len(host) : host[k] \notin {" ", "%", "/", "#", "?", "["}

\* parseAuthority: the host is what follows the last "@"; the user
\* information before it may not hold a space, a "/" or a bad escape.
ParseAuthority(authority) ==
    LET k == LastIndexOf(authority, "@")
        host == Suffix(authority, k + 1)
        user == Prefix(authority, IF k = 0 THEN 0 ELSE k - 1)
    IN  [ok |-> /\ ValidHost(host)
                /\ \A j \in 1..Len(user) : user[j] \notin {" ", "/", "?", "[", "]", "@"}
                /\ ValidEscapes(user),
         Host |-> host]

URLError == [ok |-> FALSE, Scheme |-> <<>>, Host |-> <<>>]

\* url.Parse(rawURL): [ok, Scheme, Host].  Scheme is what getScheme found
\* (letter case is not modelled), Host the authority's host with its port.
ParseURL(rawURL) ==
    LET fk == IndexOf(rawURL, "#")
        u == IF fk = 0 THEN rawURL ELSE Prefix(rawURL, fk - 1)
        frag == IF fk = 0 THEN <<>> ELSE Suffix(rawURL, fk + 1)
        gs == GetScheme(u)
        scheme == gs[2]
        qk == IndexOf(gs[3], "?")
        rest == IF qk = 0 THEN gs[3] ELSE Prefix(gs[3], qk - 1)
    IN  IF ~gs[1] THEN URLError
        ELSE IF ~HasPrefix(rest, <<"/">>) /\ scheme # <<>>
             THEN \* an opaque URL: no host, the rest is kept as it is
                  IF ValidEscapes(frag)
                  THEN [ok |-> TRUE, Scheme |-> scheme, Host |-> <<>>]
                  ELSE URLError
        ELSE IF /\ ~HasPrefix(rest, <<"/">>)
                /\ LET sk == IndexOf(rest, "/")
                       seg == IF sk = 0 THEN rest ELSE Prefix(rest, sk - 1)
                   IN  IndexOf(seg, ":") > 0
             THEN \* first path segment in URL cannot contain colon
                  URLError
        ELSE IF /\ HasPrefix(rest, <<"/", "/">>)
                /\ (scheme # <<>> \/ ~HasPrefix(rest, <<"/", "/", "/">>))
             THEN LET after == Suffix(rest, 3)
                      ak == IndexOf(after, "/")
                      authority == IF ak = 0 THEN after ELSE Prefix(after, ak - 1)
                      path == IF ak = 0 THEN <<>> ELSE Suffix(after, ak)
                      a == ParseAuthority(authority)
                  IN  IF a.ok /\ ValidEscapes(path) /\ ValidEscapes(frag)
                      THEN [ok |-> TRUE, Scheme |-> scheme, Host |-> a.Host]
                      ELSE URLError
        ELSE IF ValidEscapes(rest) /\ ValidEscapes(frag)
             THEN [ok |-> TRUE, Scheme |-> scheme, Host |-> <<>>]
             ELSE URLError

\* Mutation: the host without its port (Hostname() in place of Host).
BaseURL_Hostname(parsedURL) ==
    LET k == LastIndexOf(parsedURL.Host, ":")
        hostname == IF k = 0 THEN parsedURL.Host ELSE Prefix(parsedURL.Host, k - 1)
    IN  parsedURL.Scheme \o <<":", "/", "/">> \o hostname \o <<"/">>

\* baseURL := fmt.Sprintf("%s://%s/", parsedURL.Scheme, parsedURL.Host)
BaseURL(parsedURL) ==
    parsedURL.Scheme \o <<":", "/", "/">> \o parsedURL.Host \o <<"/">>

(***************************************************************************)
(* encoding/xml.  A file's content is [wf, header, root, attrs, children]: *)
(* wf says whether the bytes are a well-formed document, header whether    *)
(* they start with the XML declaration, children are the root's child      *)
(* elements [name, fields], fields a sequence of <<tag, text>> pairs.      *)
(***************************************************************************)
SitemapNS == <<"http://www.sitemaps.org/schemas/sitemap/0.9">>

XhtmlNS == <<"http://www.w3.org/1999/xhtml">>

\* Bytes that are not well-formed XML.
Garbage ==
    [wf |-> FALSE, header |-> FALSE, root |-> "garbage", attrs |-> <<>>,
     children |-> <<>>]

\* What a failed write may leave behind: a file cut short.
Truncated ==
    [wf |-> FALSE, header |-> FALSE, root |-> "truncated", attrs |-> <<>>,
     children |-> <<>>]

\* The text of the last child element named tag; "" when there is none.
FieldValue(fields, tag) ==
    LET k == CHOOSE k \in 0..Len(fields) :
                 /\ k > 0 => fields[k][1] = tag
                 /\ \A j \in (k + 1)..Len(fields) : fields[j][1] # tag
    IN  IF k = 0 THEN <<>> ELSE fields[k][2]

\* Decoding one <url> element into the URL struct: unknown children are
\* skipped, absent ones leave the field "".
DecodeURL(fields) ==
    [Loc |-> FieldValue(fields, "loc"),
     LastMod |-> FieldValue(fields, "lastmod"),
     ChangeFreq |-> FieldValue(fields, "changefreq"),
     Priority |-> FieldValue(fields, "priority")]

RECURSIVE DecodeURLs(_)
DecodeURLs(children) ==
    IF children = <<>> THEN <<>>
    ELSE (IF Head(children).name = "url"
          THEN <<DecodeURL(Head(children).fields)>>
          ELSE <<>>) \o DecodeURLs(Tail(children))

\* xml.Unmarshal(data, &urlset): fails on bytes that are not well-formed
\* and on a root element other than <urlset>.
Unmarshal(data) ==
    IF data.wf /\ data.root = "urlset"
    THEN [ok |-> TRUE, URLs |-> DecodeURLs(data.children)]
    ELSE [ok |-> FALSE, URLs |-> <<>>]

\* One <url> element as xml.MarshalIndent writes it: loc always, the
\* omitempty fields only when they are not "".
OmitEmpty(tag, text) == IF text = <<>> THEN <<>> ELSE <<<<tag, text>>>>

\* Mutation: priority is not written.
EncodeURL_DropPriority(u) ==
    [name |-> "url",
     fields |-> <<<<"loc", u.Loc>>>>
                \o OmitEmpty("lastmod", u.LastMod)
                \o OmitEmpty("changefreq", u.ChangeFreq)]

EncodeURL(u) ==
    [name |-> "url",
     fields |-> <<<<"loc", u.Loc>>>>
                \o OmitEmpty("lastmod", u.LastMod)
                \o OmitEmpty("changefreq", u.ChangeFreq)
                \o OmitEmpty("priority", u.Priority)]

\* xml.Header followed by xml.MarshalIndent(newURLSet, "", "  ")
MarshalURLSet(chunk) ==
    [wf |-> TRUE, header |-> TRUE, root |-> "urlset",
     attrs |-> <<<<"xmlns", SitemapNS>>, <<"xmlns:xhtml", XhtmlNS>>>>,
     children |-> [k \in 1..Len(chunk) |-> EncodeURL(chunk[k])]]

\* One <sitemap> element of the index: loc and lastmod, both always written.
EncodeSitemap(file) ==
    [name |-> "sitemap",
     fields |-> <<<<"loc", file.BaseURL \o file.Name>>,
                  <<"lastmod", file.LastModDate>>>>]

\* xml.Header followed by xml.MarshalIndent(sitemapIndex, "", "  ")
MarshalIndex(sitemapFiles) ==
    [wf |-> TRUE, header |-> TRUE, root |-> "sitemapindex",
     attrs |-> <<<<"xmlns", SitemapNS>>>>,
     children |-> [k \in 1..Len(sitemapFiles) |-> EncodeSitemap(sitemapFiles[k])]]

\* time.Now().Format(time.RFC3339) at clock value t: never "".
FormatTime(t) == <<"time", ToString(t)>>

(***************************************************************************)
(* The inputs the model draws from.                                        *)
(***************************************************************************)
\* Source paths: the example's relative path, an absolute path whose file is
\* named like the index, and a bare file name with no extension.
PathPool ==
    { <<".", "/", "example", "/", "sitemap", ".", "xml">>,
      <<"/", "srv", "/", "sitemap", "-", "index", ".", "xml">>,
      <<"urls">> }

\* <url> elements of a source document.
SrcA ==
    [name |-> "url",
     fields |-> << <<"loc", <<"https", ":", "/", "/", "example", ".", "com", "/", "a">>>>,
                   <<"lastmod", <<"2024-01-01">>>>,
                   <<"changefreq", <<"daily">>>>,
                   <<"priority", <<"0.8">>>> >>]

\* another host with a port, an empty <lastmod>, and a child element the
\* URL struct does not know
SrcB ==
    [name |-> "url",
     fields |-> << <<"xhtml:link", <<"alternate">>>>,
                   <<"loc", <<"http", ":", "/", "/", "other", ".", "org", ":", "8080", "/", "b">>>>,
                   <<"lastmod", <<>>>>,
                   <<"priority", <<"0.5">>>> >>]

\* "not a url"
SrcC ==
    [name |-> "url",
     fields |-> << <<"loc", <<"not", " ", "a", " ", "url">>>>,
                   <<"lastmod", <<"2024-02-02">>>> >>]

\* "%zz": an invalid escape
SrcD ==
    [name |-> "url",
     fields |-> << <<"loc", <<"%", "zz">>>>,
                   <<"lastmod", <<"2024-03-03">>>> >>]

SrcElems == {SrcA, SrcB, SrcC, SrcD}

SeqsUpTo(S, n) == UNION {[1..k -> S] : k \in 0..n}

SourceDoc(children) ==
    [wf |-> TRUE, header |-> FALSE, root |-> "urlset",
     attrs |-> <<<<"xmlns", SitemapNS>>>>, children |-> children]

\* What the source file may hold.
SourceContents ==
    {SourceDoc(c) : c \in SeqsUpTo(SrcElems, MaxUrls)} \cup {Garbage}

(***************************************************************************)
(* State.                                                                  *)
(***************************************************************************)
VARIABLES
    fs,            \* the file system: cleaned path -> content, for the files that exist
    fs0,           \* the file system before anything ran
    now,           \* the wall clock
    args,          \* the arguments NewSitemapSplitter was called with
    ctor,          \* "none", or how NewSitemapSplitter returned: "ok" / "InvalidConfiguration"
    splitter,      \* the SitemapSplitter: [path, limit]
    pc,            \* "idle": not inside Split; "loop": inside Split, before a loop test
    result,        \* how the last Split call returned ("none" before the first return)
    calls,         \* number of Split calls started
    urls,          \* urlset.URLs
    dir,           \* dir
    baseFilename,  \* baseFilename
    i,             \* the loop counter
    sitemapFiles,  \* sitemapFiles
    fsStart,       \* the file system when the current Split call started
    written,       \* path -> content of the files the current call has written
    history        \* one record per returned Split call

vars ==
    <<fs, fs0, now, args, ctor, splitter, pc, result, calls, urls, dir,
      baseFilename, i, sitemapFiles, fsStart, written, history>>

locals == <<urls, dir, baseFilename, i, sitemapFiles>>

NoFiles == [p \in {} |-> Garbage]

\* Limits a caller may pass, the invalid ones included.
LimitPool == (0 - 1)..MaxLimit

Init ==
    /\ \/ fs = NoFiles
       \/ \E p \in PathPool, c \in SourceContents : fs = (Clean(p) :> c)
    /\ fs0 = fs
    /\ now = 1
    /\ args = [path |-> <<>>, limit |-> 0]
    /\ ctor = "none"
    /\ splitter = [path |-> <<>>, limit |-> 0]
    /\ pc = "idle"
    /\ result = "none"
    /\ calls = 0
    /\ urls = <<>>
    /\ dir = <<>>
    /\ baseFilename = <<>>
    /\ i = 0
    /\ sitemapFiles = <<>>
    /\ fsStart = fs
    /\ written = NoFiles
    /\ history = <<>>

(***************************************************************************)
(* NewSitemapSplitter                                                      *)
(***************************************************************************)
PathRejected(path) == path = <<>>

\* Mutation: a limit of 0 is let through.
LimitRejected_Negative(limit) == limit < 0

LimitRejected(limit) == limit <= 0

NewSitemapSplitter(path, limit) ==
    /\ ctor = "none"
    /\ args' = [path |-> path, limit |-> limit]
    /\ IF PathRejected(path) \/ LimitRejected(limit)
       THEN /\ ctor' = "InvalidConfiguration"
            /\ UNCHANGED splitter
       ELSE /\ ctor' = "ok"
            /\ splitter' = [path |-> path, limit |-> limit]
    /\ UNCHANGED <<fs, fs0, now, pc, result, calls, locals, fsStart, written,
                   history>>

(***************************************************************************)
(* Split                                                                   *)
(***************************************************************************)
\* The call returns r; the file system and the call's writes are fsNew, wNew.
Return(r, fsNew, wNew, filesNew) ==
    /\ pc' = "idle"
    /\ result' = r
    /\ history' = Append(history,
                         [result |-> r, written |-> wNew, fsStart |-> fsStart',
                          fsEnd |-> fsNew, urls |-> urls',
                          sitemapFiles |-> filesNew])

\* os.WriteFile(name, data, 0644): it succeeds, or it fails before the file
\* is opened (nothing changes), or it fails after the file was created or
\* truncated (a file cut short is left).
WriteOutcomes == {"ok", "open failed", "write failed"}

AfterWrite(files, name, data, outcome) ==
    CASE outcome = "ok" -> (name :> data) @@ files
      [] outcome = "open failed" -> files
      [] outcome = "write failed" -> (name :> Truncated) @@ files

\* Mutation: the check for an empty document is missing.
NoURLs_Never(us) == FALSE

\* len(urlset.URLs) == 0
NoURLs(us) == Len(us) = 0

\* Lines 66-91: read, parse, check, and the names derived from the path.
\* A caller calls Split again only after a call that succeeded: on an error
\* the caller of the example ends the process (log.Fatalf).
SplitBegin ==
    /\ ctor = "ok"
    /\ pc = "idle"
    /\ calls < MaxCalls
    /\ result \in {"none", "ok"}
    /\ calls' = calls + 1
    /\ fsStart' = fs
    /\ written' = NoFiles
    /\ UNCHANGED <<fs, fs0, now, args, ctor, splitter>>
    /\ LET name == Clean(splitter.path)
       IN  IF name \notin DOMAIN fs
           THEN /\ UNCHANGED locals
                /\ Return("ReadError", fs, NoFiles, <<>>)
           ELSE LET urlset == Unmarshal(fs[name])
                IN  IF ~urlset.ok
                    THEN /\ UNCHANGED locals
                         /\ Return("ParseError", fs, NoFiles, <<>>)
                    ELSE IF NoURLs(urlset.URLs)
                         THEN /\ urls' = urlset.URLs
                              /\ UNCHANGED <<dir, baseFilename, i, sitemapFiles>>
                              /\ Return("EmptyDocument", fs, NoFiles, <<>>)
                         ELSE /\ urls' = urlset.URLs
                              /\ dir' = Dir(splitter.path)
                              /\ baseFilename' = BaseFilename(splitter.path)
                              /\ i' = 0
                              /\ sitemapFiles' = <<>>
                              /\ pc' = "loop"
                              /\ UNCHANGED <<result, history>>

\* Mutation: every chunk after the first starts one entry early.
ChunkStart_Overlap(k, limit) == IF k = 0 THEN 0 ELSE k * limit - 1

\* start := i * s.limit
ChunkStart(k, limit) == k * limit

\* end := (i + 1) * s.limit; if end > len(urlset.URLs) { end = len(urlset.URLs) }
ChunkEnd(k, limit, n) ==
    IF (k + 1) * limit > n THEN n ELSE (k + 1) * limit

\* chunk := urlset.URLs[start:end]
Chunk(us, k, limit) ==
    SubSeq(us, ChunkStart(k, limit) + 1, ChunkEnd(k, limit, Len(us)))

\* The loop test i*s.limit < len(urlset.URLs), and the break on an empty chunk.
LoopContinues ==
    /\ i * splitter.limit < Len(urls)
    /\ Len(Chunk(urls, i, splitter.limit)) # 0

\* Mutation: the first entry of the chunk is taken.
LastURL_First(chunk) == chunk[1]

\* lastURL := chunk[len(chunk)-1]
LastURL(chunk) == chunk[Len(chunk)]

\* Mutation: the clock is used whatever the entry holds.
UsesClock_Always(lastURL) == TRUE

\* lastMod := lastURL.LastMod; if lastMod == "" { lastMod = time.Now().Format(...) }
UsesClock(lastURL) == lastURL.LastMod = <<>>

LastMod(lastURL, t) ==
    IF UsesClock(lastURL) THEN FormatTime(t) ELSE lastURL.LastMod

\* outputPath := filepath.Join(dir, sitemapName)
OutputPath(d, base, n) == Join(d, SitemapName(base, n))

\* indexPath := filepath.Join(dir, "sitemap-index.xml")
IndexPath(d) == Join(d, IndexName)

\* Lines 94-153: one pass of the loop body.
SplitChunk ==
    /\ pc = "loop"
    /\ LoopContinues
    /\ UNCHANGED <<fs0, args, ctor, splitter, calls, urls, dir, baseFilename,
                   fsStart>>
    /\ LET chunk == Chunk(urls, i, splitter.limit)
           sitemapName == SitemapName(baseFilename, i + 1)
           lastURL == LastURL(chunk)
           parsedURL == ParseURL(lastURL.Loc)
       IN  IF ~parsedURL.ok
           THEN /\ UNCHANGED <<fs, now, i, sitemapFiles, written>>
                /\ Return("URLParseError", fs, written, sitemapFiles)
           ELSE \E t \in now..MaxTime, outcome \in WriteOutcomes :
                  LET file == [BaseURL |-> BaseURL(parsedURL),
                               Name |-> sitemapName,
                               LastModDate |-> LastMod(lastURL, t)]
                      outputPath == OutputPath(dir, baseFilename, i + 1)
                      xmlData == MarshalURLSet(chunk)
                  IN  /\ UsesClock(lastURL) \/ t = now
                      /\ now' = t
                      /\ sitemapFiles' = Append(sitemapFiles, file)
                      /\ fs' = AfterWrite(fs, outputPath, xmlData, outcome)
                      /\ IF outcome = "ok"
                         THEN /\ written' = (outputPath :> xmlData) @@ written
                              /\ i' = i + 1
                              /\ UNCHANGED <<pc, result, history>>
                         ELSE /\ UNCHANGED <<i, written>>
                              /\ Return("WriteError", fs', written, sitemapFiles')

\* Lines 155-181: the index, written once the loop has ended.
SplitIndex ==
    /\ pc = "loop"
    /\ ~LoopContinues
    /\ UNCHANGED <<fs0, now, args, ctor, splitter, calls, locals, fsStart>>
    /\ \E outcome \in WriteOutcomes :
         LET indexPath == IndexPath(dir)
             xmlData == MarshalIndex(sitemapFiles)
         IN  /\ fs' = AfterWrite(fs, indexPath, xmlData, outcome)
             /\ IF outcome = "ok"
                THEN /\ written' = (indexPath :> xmlData) @@ written
                     /\ Return("ok", fs', written', sitemapFiles)
                ELSE /\ UNCHANGED written
                     /\ Return("WriteError", fs', written, sitemapFiles)

Next ==
    \/ \E path \in PathPool \cup {<<>>}, limit \in LimitPool :
           NewSitemapSplitter(path, limit)
    \/ SplitBegin
    \/ SplitChunk
    \/ SplitIndex

Spec == Init /\ [][Next]_vars

(***************************************************************************)
(* Vocabulary of the properties.  These are written out from the           *)
(* documented behaviour, not through the operators Split is modelled with. *)
(***************************************************************************)
\* Split has returned r and nothing has run since.
Returned(r) == pc = "idle" /\ result = r

\* The source file, as the operating system resolves s.path.
SourceName == Clean(splitter.path)

\* The URL entries of the source as it was when the current call started.
SourceEntries ==
    IF SourceName \in DOMAIN fsStart
    THEN Unmarshal(fsStart[SourceName]).URLs
    ELSE <<>>

Ceil(n, l) == (n + l - 1) \div l

Min(a, b) == IF a < b THEN a ELSE b

\* <baseFilename>-<k>.xml beside the source, and the index beside the source.
ExpectedChunkPath(k) ==
    Join(Dir(splitter.path),
         BaseFilename(splitter.path) \o <<"-", ToString(k), ".", "xml">>)

ExpectedIndexPath ==
    Join(Dir(splitter.path), <<"sitemap", "-", "index", ".", "xml">>)

\* The entries chunk k (1-indexed) is to hold.
ExpectedChunk(k) ==
    SubSeq(SourceEntries, (k - 1) * splitter.limit + 1,
           Min(k * splitter.limit, Len(SourceEntries)))

ExpectedChunkCount == Ceil(Len(SourceEntries), splitter.limit)

\* The files the current call has written, the index apart.
ChunkFilesWritten == DOMAIN written \ {ExpectedIndexPath}

\* The entries held by the files ExpectedChunkPath(1..n), in that order.
RECURSIVE EntriesOfChunkFiles(_, _)
EntriesOfChunkFiles(k, n) ==
    IF k > n THEN <<>>
    ELSE Unmarshal(fs[ExpectedChunkPath(k)]).URLs \o EntriesOfChunkFiles(k + 1, n)

(***************************************************************************)
(* C1.  After a successful Split the chunk files, read back in the order   *)
(* 1, 2, ..., hold exactly the entries of the source, in their order, with *)
(* loc, lastmod, changefreq and priority unchanged.                        *)
(***************************************************************************)
C1_ChunksReproduceInput ==
    Returned("ok") =>
        LET n == Cardinality(ChunkFilesWritten)
        IN  /\ \A k \in 1..n : ExpectedChunkPath(k) \in DOMAIN fs
            /\ EntriesOfChunkFiles(1, n) = SourceEntries

\* A run that wrote two chunks of a three-entry source holding an entry with
\* optional fields and one without.
C1_Witness ==
    /\ Returned("ok")
    /\ Len(SourceEntries) = 3
    /\ splitter.limit = 2
    /\ \E a, b \in 1..3 : /\ SourceEntries[a].Priority # <<>>
                          /\ SourceEntries[b].ChangeFreq = <<>>

(***************************************************************************)
(* C2.  A successful Split of N >= 1 entries with limit L has run the loop *)
(* ceil(N/L) times and written exactly the files <base>-1.xml ..           *)
(* <base>-ceil(N/L).xml; every chunk but the last holds L entries, the     *)
(* last between 1 and L, none is empty.                                    *)
(***************************************************************************)
C2_ChunkCountAndSizes ==
    Returned("ok") =>
        LET n == Len(SourceEntries)
            l == splitter.limit
            c == Ceil(n, l)
            size(k) == Len(fs[ExpectedChunkPath(k)].children)
        IN  /\ n >= 1
            /\ i = c
            /\ ChunkFilesWritten = {ExpectedChunkPath(k) : k \in 1..c}
            /\ Cardinality(ChunkFilesWritten) = c
            /\ \A k \in 1..c : ExpectedChunkPath(k) \in DOMAIN fs
            /\ \A k \in 1..(c - 1) : size(k) = l
            /\ size(c) >= 1 /\ size(c) <= l
            /\ (l = n => c = 1)
            /\ (n = 1 => c = 1 /\ size(1) = 1)

\* Three entries with limit 2: a full chunk and a short last one.
C2_Witness ==
    /\ Returned("ok")
    /\ Len(SourceEntries) = 3
    /\ splitter.limit = 2
    /\ Cardinality(ChunkFilesWritten) = 2

(***************************************************************************)
(* C3.  After a successful Split the index holds one reference per chunk,  *)
(* in chunk order; reference k is located at <scheme>://<host>/ of the     *)
(* last entry of chunk k followed by <base>-<k>.xml, and carries that      *)
(* entry's lastmod whenever it is not empty.                               *)
(***************************************************************************)
C3_IndexFollowsLastEntries ==
    Returned("ok") =>
        /\ ExpectedIndexPath \in DOMAIN fs
        /\ LET index == fs[ExpectedIndexPath]
               last(k) == SourceEntries[Min(k * splitter.limit, Len(SourceEntries))]
               u(k) == ParseURL(last(k).Loc)
           IN  /\ index.wf /\ index.root = "sitemapindex"
               /\ Len(index.children) = ExpectedChunkCount
               /\ \A k \in 1..Len(index.children) :
                    /\ index.children[k].name = "sitemap"
                    /\ FieldValue(index.children[k].fields, "loc") =
                         u(k).Scheme \o <<":", "/", "/">> \o u(k).Host \o <<"/">>
                           \o BaseFilename(splitter.path)
                           \o <<"-", ToString(k), ".", "xml">>
                    /\ last(k).LastMod # <<>> =>
                         FieldValue(index.children[k].fields, "lastmod") = last(k).LastMod

\* A chunk of two entries on different hosts, the last one with a port.
C3_Witness ==
    /\ Returned("ok")
    /\ splitter.limit = 2
    /\ Len(SourceEntries) >= 2
    /\ ParseURL(SourceEntries[1].Loc).Host # ParseURL(SourceEntries[2].Loc).Host
    /\ ParseURL(SourceEntries[2].Loc).Host # <<>>
    /\ SourceEntries[1].LastMod # <<>>

(***************************************************************************)
(* C4.  As claimed: when the last entry of a chunk has a location that     *)
(* does not parse, Split fails with URLParseError and leaves no file       *)
(* written by that call.                                                   *)
(***************************************************************************)
C4_Original_NoPartialOutput ==
    Returned("URLParseError") => (written = NoFiles /\ fs = fsStart)

(***************************************************************************)
(* C4, amended.  Split never succeeds on a source in which the last entry  *)
(* of some chunk has a location that does not parse; when it fails with    *)
(* URLParseError at chunk k, that chunk's last location does not parse and *)
(* the call has written the files of chunks 1..k-1 and nothing else: no    *)
(* file for chunk k or a later chunk, and no index.                        *)
(***************************************************************************)
C4_ParseFailureStopsAtChunk ==
    LET n == Len(SourceEntries)
        last(k) == SourceEntries[Min(k * splitter.limit, n)]
    IN  /\ Returned("ok") =>
              \A k \in 1..ExpectedChunkCount : ParseURL(last(k).Loc).ok
        /\ Returned("URLParseError") =>
              LET k == i + 1
              IN  /\ k <= ExpectedChunkCount
                  /\ ~ParseURL(last(k).Loc).ok
                  /\ \A j \in 1..(k - 1) : ParseURL(last(j).Loc).ok
                  /\ DOMAIN written = {ExpectedChunkPath(j) : j \in 1..(k - 1)}
                  /\ ExpectedIndexPath \notin DOMAIN written
                  /\ fs = written @@ fsStart

\* The parse failure comes at the second chunk or later: files are left.
C4_Witness ==
    /\ Returned("URLParseError")
    /\ i >= 1
    /\ written # NoFiles

(***************************************************************************)
(* C5.  When Split fails while processing chunk k (the location of its     *)
(* last entry does not parse, or its file cannot be written), the files of *)
(* chunks 1..k-1 are on disk exactly as produced, no file of a chunk after *)
(* k and no index has been written, and after a parse failure exactly k-1  *)
(* chunk files have been written.                                          *)
(***************************************************************************)
FailedAtChunk ==
    /\ pc = "idle"
    /\ result \in {"URLParseError", "WriteError"}
    /\ i * splitter.limit < Len(urls)

Untouched(name) ==
    IF name \in DOMAIN fsStart
    THEN name \in DOMAIN fs /\ fs[name] = fsStart[name]
    ELSE name \notin DOMAIN fs

C5_FailureKeepsEarlierChunks ==
    FailedAtChunk =>
        LET k == i + 1
        IN  /\ \A j \in 1..(k - 1) :
                 /\ ExpectedChunkPath(j) \in DOMAIN fs
                 /\ fs[ExpectedChunkPath(j)] = MarshalURLSet(ExpectedChunk(j))
            /\ \A j \in (k + 1)..ExpectedChunkCount : Untouched(ExpectedChunkPath(j))
            /\ Untouched(ExpectedIndexPath)
            /\ result = "URLParseError" =>
                 /\ Untouched(ExpectedChunkPath(k))
                 /\ Cardinality(DOMAIN written) = k - 1
            /\ \A name \in DOMAIN fs :
                 Untouched(name) \/ \E j \in 1..k : name = ExpectedChunkPath(j)

\* The write of the second of three chunks fails.
C5_Witness ==
    /\ FailedAtChunk
    /\ result = "WriteError"
    /\ i = 1
    /\ ExpectedChunkCount = 3

(***************************************************************************)
(* C6.  A source that parses but holds no URL entry makes Split fail with  *)
(* EmptyDocument, and no file is written; no file is written by a call     *)
(* whose source cannot be read, does not parse or holds no entry.          *)
(***************************************************************************)
SourceUsable ==
    /\ SourceName \in DOMAIN fsStart
    /\ Unmarshal(fsStart[SourceName]).ok
    /\ Len(Unmarshal(fsStart[SourceName]).URLs) > 0

C6_EmptyDocumentWritesNothing ==
    calls > 0 =>
        /\ ( /\ SourceName \in DOMAIN fsStart
             /\ Unmarshal(fsStart[SourceName]).ok
             /\ Len(Unmarshal(fsStart[SourceName]).URLs) = 0 )
           => Returned("EmptyDocument")
        /\ Returned("EmptyDocument") => (fs = fsStart /\ written = NoFiles)
        /\ ~SourceUsable => (fs = fsStart /\ written = NoFiles /\ pc = "idle")
        /\ fs # fsStart => SourceUsable

\* Split has returned EmptyDocument on a source that exists and parses.
C6_Witness ==
    /\ Returned("EmptyDocument")
    /\ SourceName \in DOMAIN fs
    /\ fs[SourceName].wf
    /\ fs[SourceName].children = <<>>

(***************************************************************************)
(* C7.  Two successful runs of Split on the same source with the same      *)
(* limit write the same files, with identical chunk files; their indexes   *)
(* differ at most in the lastmod of references to chunks whose last entry  *)
(* has no lastmod, and are identical when every chunk's last entry has one.*)
(***************************************************************************)
IndexWrittenBy(run) == run.written[ExpectedIndexPath]

C7_RerunIsIdentical ==
    \A a, b \in 1..Len(history) :
        ( /\ a < b
          /\ history[a].result = "ok"
          /\ history[b].result = "ok"
          /\ history[a].fsStart[SourceName] = history[b].fsStart[SourceName] )
        =>
        LET ra == history[a]
            rb == history[b]
            entries == Unmarshal(ra.fsStart[SourceName]).URLs
            last(k) == entries[Min(k * splitter.limit, Len(entries))]
            ia == IndexWrittenBy(ra).children
            ib == IndexWrittenBy(rb).children
            sameButLastMod(x, y) ==
                /\ x.name = y.name
                /\ Len(x.fields) = Len(y.fields)
                /\ \A f \in 1..Len(x.fields) :
                     /\ x.fields[f][1] = y.fields[f][1]
                     /\ x.fields[f][1] # "lastmod" => x.fields[f][2] = y.fields[f][2]
        IN  /\ DOMAIN ra.written = DOMAIN rb.written
            /\ \A name \in DOMAIN ra.written \ {ExpectedIndexPath} :
                 ra.written[name] = rb.written[name]
            /\ Len(ia) = Len(ib)
            /\ \A k \in 1..Len(ia) :
                 /\ sameButLastMod(ia[k], ib[k])
                 /\ last(k).LastMod # <<>> => ia[k] = ib[k]
            /\ (\A k \in 1..Len(ia) : last(k).LastMod # <<>>)
                 => ra.written = rb.written

\* Two successful runs whose indexes differ (the clock moved in between).
C7_Witness ==
    /\ Len(history) = 2
    /\ history[1].result = "ok"
    /\ history[2].result = "ok"
    /\ IndexWrittenBy(history[1]) # IndexWrittenBy(history[2])
    /\ \E k \in 1..Len(history[1].urls) : history[1].urls[k].LastMod # <<>>

(***************************************************************************)
(* C8.  After a successful Split every location in the index is an         *)
(* absolute URL: it has a scheme and a host.                               *)
(***************************************************************************)
C8_IndexLocationsAbsolute ==
    Returned("ok") =>
        \A k \in 1..Len(fs[ExpectedIndexPath].children) :
            LET u == ParseURL(FieldValue(fs[ExpectedIndexPath].children[k].fields, "loc"))
            IN  u.ok /\ u.Scheme # <<>> /\ u.Host # <<>>

(***************************************************************************)
(* C9.  NewSitemapSplitter fails with InvalidConfiguration exactly when    *)
(* the path is empty or the limit is not positive, and touches no file;    *)
(* otherwise the splitter holds the path and the limit it was given, and   *)
(* no Split call changes them.                                             *)
(***************************************************************************)
C9_ConstructorValidates ==
    /\ ctor = "none" => (calls = 0 /\ fs = fs0)
    /\ ctor # "none" =>
         /\ ctor = "InvalidConfiguration" <=> (args.path = <<>> \/ args.limit <= 0)
         /\ ctor = "InvalidConfiguration" => (calls = 0 /\ fs = fs0)
         /\ ctor = "ok" => splitter = args
         /\ calls = 0 => fs = fs0

\* A limit of 0 with a path was refused.
C9_Witness ==
    /\ ctor = "InvalidConfiguration"
    /\ args.path # <<>>
    /\ args.limit = 0

(***************************************************************************)
(* C10.  Split never writes to its source: every path it writes differs    *)
(* from the source path, the paths it writes are pairwise distinct, and    *)
(* the source holds after Split what it held before.                       *)
(***************************************************************************)
C10_SourceNeverWritten ==
    calls > 0 =>
        /\ \A name \in DOMAIN written : name # SourceName
        /\ SourceName \in DOMAIN fsStart =>
             (SourceName \in DOMAIN fs /\ fs[SourceName] = fsStart[SourceName])
        /\ pc = "loop" => Cardinality(DOMAIN written) = i
        /\ Returned("ok") => Cardinality(DOMAIN written) = i + 1

=============================================================================
